---- MODULE Spec2Model ----
(***************************************************************************)
(* Model of cppflow's dependency-free protobuf wire-format decoder         *)
(* (include/cppflow/pb_helper.h): the ProtoReader cursor and the parsers   *)
(* ParseTensorShape, ParseTensorInfo, ParseIOMapEntry, ParseSignatureDef   *)
(* and ParseSignatures.                                                    *)
(*                                                                         *)
(* Representation.                                                         *)
(*  - A byte is an integer 0..255; a std::string is a sequence of bytes.   *)
(*  - A uint64_t / int64_t / uint32_t / int is its two's-complement bit    *)
(*    pattern: the set of positions of its 1 bits (a subset of 0..63, or   *)
(*    of 0..31).  OR is union, a shift is a translation, a narrowing cast  *)
(*    is an intersection; nothing is lost to the model checker's own       *)
(*    integer width.                                                       *)
(*  - A pointer into a buffer is its offset from the buffer's first byte   *)
(*    (start = 0, end_ = Len(data)); offsets farther than Far from the     *)
(*    buffer are clamped to -Far / +Far.                                   *)
(*  - A std::map is a function whose DOMAIN is its key set.                *)
(*  - A local variable of the C++ code is bound with Let(value, LAMBDA     *)
(*    name : ...), which evaluates the value once.                         *)
(***************************************************************************)
EXTENDS Integers, Sequences, FiniteSets, TLC

VARIABLES
    data,        \* the buffer the reader (or the call under test) works on
    ptr_,        \* ProtoReader::ptr_ of the top-level reader, as an offset
    ret,         \* value returned by the last completed call
    fault,       \* "none", or how the run left defined behaviour / raised
    signatures,  \* ParseSignatures' local result table
    pc,          \* position of the run
    calls,       \* reader operations performed so far (history)
    last,        \* what the last ParseSignatures loop iteration did
    src,         \* provenance of the input: what `data` was built from
    ubShift      \* what this build does with a shift count >= 64

vars == <<data, ptr_, ret, fault, signatures, pc, calls, last, src, ubShift>>

----------------------------------------------------------------------------
(* Bounds of the model *)

FarBits == 20        \* offsets are tracked exactly within 2^FarBits bytes
AddrBits == 47       \* buffer addresses have at most this many bits
MaxCalls == 2        \* reader operations per run of the cursor machine
MaxRun == 11         \* longest run of continuation bytes offered
MaxRank == 2         \* dimensions per generated shape
MaxSigs == 2         \* signatures per generated table
MaxIO == 1           \* inputs, and outputs, per generated signature
MaxEntries == 2      \* map entries per generated entry list
MaxFields == 2       \* top-level fields per generated unknown-field buffer
MaxItems == 3        \* fields per generated shape message

Far == 2^FarBits

\* F applied to the value of v
Let(v, F(_)) == CHOOSE y \in {F(x) : x \in {v}} : TRUE

----------------------------------------------------------------------------
(* 64-bit values as bit patterns *)

RECURSIVE SumBits(_, _)
SumBits(bits, i) ==
    IF i > 30 THEN 0
    ELSE (IF i \in bits THEN 2^i ELSE 0) + SumBits(bits, i + 1)

\* the number a pattern below 2^31 stands for
ToInt(bits) == Let(bits, LAMBDA b : SumBits(b, 0))

\* the pattern of a number 0 <= n < 2^31
FromInt(n) == Let(n, LAMBDA m : {i \in 0..30 : (m \div (2^i)) % 2 = 1})

MaxOf(S) == CHOOSE x \in S : \A y \in S : y <= x

\* two's-complement pattern of a (small) signed integer, as int64_t
I64(n) == IF n >= 0 THEN FromInt(n) ELSE (0..63) \ FromInt(-n - 1)

\* two's-complement pattern of a (small) signed integer, as int
I32(n) == IF n >= 0 THEN FromInt(n) ELSE (0..31) \ FromInt(-n - 1)

\* LowSeven masking with 0xFF: the continuation bit leaks into the value
LowSeven_NoMask(b) == {i \in 0..7 : (b \div (2^i)) % 2 = 1}

\* b & 0x7F
LowSeven(b) == {i \in 0..6 : (b \div (2^i)) % 2 = 1}

\* static_cast<uint64_t>(x) << s, for 0 <= s < 64
Shl(bits, s) == {i + s : i \in bits} \cap (0..63)

\* x << shift as the build computes it; a count >= 64 is undefined in C++
ShlCount(bits, s) ==
    IF s < 64 THEN Shl(bits, s)
    ELSE IF ubShift = "mod64" THEN Shl(bits, s % 64)
    ELSE {}

\* x >> 3
Shr3(bits) == {i - 3 : i \in bits \cap (3..63)}

\* the conversion uint64_t -> uint32_t of `uint32_t field = tag >> 3`
FieldOf(tag) == Shr3(tag) \cap (0..31)

\* tag & 7, a small integer
WireOf(tag) ==
    (IF 0 \in tag THEN 1 ELSE 0) + (IF 1 \in tag THEN 2 ELSE 0)
        + (IF 2 \in tag THEN 4 ELSE 0)

\* static_cast<int>(uint64_t)
ToI32(bits) == bits \cap (0..31)

----------------------------------------------------------------------------
(* Pointer arithmetic *)

Clamp(x) == IF x > Far THEN Far ELSE IF x < -Far THEN -Far ELSE x

\* ptr_ + len for a size_t len, computed modulo 2^64 as the machine does:
\* a len of 2^64 - k moves the pointer back by k
PtrAdd(p, len) ==
    IF p = Far \/ p = -Far THEN p
    ELSE IF len \subseteq (0..(FarBits - 1)) THEN Clamp(p + ToInt(len))
    ELSE IF (FarBits..63) \subseteq len
         THEN Clamp(p - (Far - ToInt(len \cap (0..(FarBits - 1)))))
    ELSE IF (AddrBits..63) \subseteq len THEN -Far
    ELSE Far

----------------------------------------------------------------------------
(* ProtoReader.  A call returns [val, ptr, fault]: its return value, the   *)
(* cursor after it, and "none" or the way it failed to return.             *)

eof(d, p) == p >= Len(d)

Ok(v, p) == [val |-> v, ptr |-> p, fault |-> "none"]
Bad(p, f) == [val |-> {}, ptr |-> p, fault |-> f]

RECURSIVE VarintLoop(_, _, _, _)
VarintLoop(d, p, val, shift) ==
    IF ~(p < Len(d)) THEN Ok(val, p)
    ELSE IF p < 0 THEN Bad(Clamp(p + 1), "oob_read")
    ELSE Let(d[p + 1], LAMBDA b :
         Let(val \cup ShlCount(LowSeven(b), shift), LAMBDA v :
             IF b < 128 THEN Ok(v, p + 1)
             ELSE VarintLoop(d, p + 1, v, shift + 7)))

read_varint(d, p) == VarintLoop(d, p, {}, 0)

\* read_bytes handing out what is left of the buffer when len is too large
read_bytes_Short(d, p, len) ==
    IF PtrAdd(p, len) > Len(d)
    THEN (IF 0 <= p /\ p <= Len(d) THEN Ok(SubSeq(d, p + 1, Len(d)), Len(d))
          ELSE Ok(<<>>, p))
    ELSE IF ~(len \subseteq (0..(FarBits - 1))) THEN Bad(p, "length_error")
    ELSE Let(ToInt(len), LAMBDA n :
             IF n > 0 /\ p < 0 THEN Bad(p, "oob_read")
             ELSE Ok(SubSeq(d, p + 1, p + n), p + n))

\* a len that passes the check by wrapping around is larger than
\* std::string::max_size(): the constructor throws std::length_error
read_bytes(d, p, len) ==
    IF PtrAdd(p, len) > Len(d) THEN Ok(<<>>, p)
    ELSE IF ~(len \subseteq (0..(FarBits - 1))) THEN Bad(p, "length_error")
    ELSE Let(ToInt(len), LAMBDA n :
             IF n > 0 /\ p < 0 THEN Bad(p, "oob_read")
             ELSE Ok(SubSeq(d, p + 1, p + n), p + n))

read_string(d, p) ==
    Let(read_varint(d, p), LAMBDA l :
        IF l.fault # "none" THEN l ELSE read_bytes(d, l.ptr, l.val))

\* skip with the two fixed widths exchanged
skip_WidthsSwapped(d, p, wire_type) ==
    IF wire_type = 0 THEN
        Let(read_varint(d, p), LAMBDA r : [r EXCEPT !.val = {}])
    ELSE IF wire_type = 2 THEN
        Let(read_varint(d, p), LAMBDA l :
            IF l.fault # "none" THEN l ELSE Ok({}, PtrAdd(l.ptr, l.val)))
    ELSE IF wire_type = 5 THEN Ok({}, Clamp(p + 8))
    ELSE IF wire_type = 1 THEN Ok({}, Clamp(p + 4))
    ELSE Ok({}, p)

skip(d, p, wire_type) ==
    IF wire_type = 0 THEN
        Let(read_varint(d, p), LAMBDA r : [r EXCEPT !.val = {}])
    ELSE IF wire_type = 2 THEN
        Let(read_varint(d, p), LAMBDA l :
            IF l.fault # "none" THEN l ELSE Ok({}, PtrAdd(l.ptr, l.val)))
    ELSE IF wire_type = 5 THEN Ok({}, Clamp(p + 4))
    ELSE IF wire_type = 1 THEN Ok({}, Clamp(p + 8))
    ELSE Ok({}, p)

----------------------------------------------------------------------------
(* std::map, std::vector *)

\* push_front instead of push_back
push_back_Front(dims, v) == <<v>> \o dims

\* dims.push_back(v)
push_back(dims, v) == Append(dims, v)

EmptyMap == [k \in {} |-> {}]

\* std::map::insert semantics: an existing key keeps its value
MapPut_KeepFirst(m, k, v) ==
    IF k \in DOMAIN m THEN m
    ELSE [x \in (DOMAIN m) \cup {k} |-> IF x = k THEN v ELSE m[x]]

\* m[k] = v
MapPut(m, k, v) == [x \in (DOMAIN m) \cup {k} |-> IF x = k THEN v ELSE m[x]]

\* the guard with the value test left out
BothNonEmpty_KeyOnly(key, value_blob) == key # <<>>

\* !key.empty() && !value_blob.empty()
BothNonEmpty(key, value_blob) == key # <<>> /\ value_blob # <<>>

----------------------------------------------------------------------------
(* Parsers.  Each returns [val, fault]: the C++ return value, and "none"   *)
(* or the way the call failed to return ("length_error" thrown by the      *)
(* std::string constructor, "oob_read" of a byte outside the buffer,       *)
(* "hang" when a loop returns to a cursor position it has already been at).*)
(* In the loops, d is the reader's buffer, p its cursor and seen the       *)
(* cursor positions at which earlier iterations started.                   *)

Ret(v) == [val |-> v, fault |-> "none"]
Fail(f) == [val |-> <<>>, fault |-> f]

\* the inner while loop of ParseTensorShape, over dim_reader
RECURSIVE DimLoop(_, _, _, _)
DimLoop(d, p, dims, seen) ==
    IF eof(d, p) THEN Ret(dims)
    ELSE IF p \in seen THEN Fail("hang")
    ELSE Let(read_varint(d, p), LAMBDA d_tag :
         IF d_tag.fault # "none" THEN Fail(d_tag.fault)
         ELSE IF Shr3(d_tag.val) = FromInt(1) THEN
             Let(read_varint(d, d_tag.ptr), LAMBDA size :
                 IF size.fault # "none" THEN Fail(size.fault)
                 ELSE DimLoop(d, size.ptr, push_back(dims, size.val),
                              seen \cup {p}))
         ELSE
             Let(skip(d, d_tag.ptr, WireOf(d_tag.val)), LAMBDA k :
                 IF k.fault # "none" THEN Fail(k.fault)
                 ELSE DimLoop(d, k.ptr, dims, seen \cup {p})))

RECURSIVE ShapeLoop(_, _, _, _)
ShapeLoop(d, p, dims, seen) ==
    IF eof(d, p) THEN Ret(dims)
    ELSE IF p \in seen THEN Fail("hang")
    ELSE Let(read_varint(d, p), LAMBDA tag :
         IF tag.fault # "none" THEN Fail(tag.fault)
         ELSE IF FieldOf(tag.val) = FromInt(2) THEN
             Let(read_string(d, tag.ptr), LAMBDA dim_blob :
                 IF dim_blob.fault # "none" THEN Fail(dim_blob.fault)
                 ELSE Let(DimLoop(dim_blob.val, 0, dims, {}), LAMBDA inner :
                          IF inner.fault # "none" THEN inner
                          ELSE ShapeLoop(d, dim_blob.ptr, inner.val,
                                         seen \cup {p})))
         ELSE
             \* field 3 (unknown_rank) and every other field
             Let(skip(d, tag.ptr, WireOf(tag.val)), LAMBDA k :
                 IF k.fault # "none" THEN Fail(k.fault)
                 ELSE ShapeLoop(d, k.ptr, dims, seen \cup {p})))

ParseTensorShape(blob) == Let(blob, LAMBDA b : ShapeLoop(b, 0, <<>>, {}))

\* a default-constructed TensorInfo
NewTensorInfo == [name |-> <<>>, dtype |-> {}, shape |-> <<>>]

RECURSIVE TensorInfoLoop(_, _, _, _)
TensorInfoLoop(d, p, info, seen) ==
    IF eof(d, p) THEN Ret(info)
    ELSE IF p \in seen THEN Fail("hang")
    ELSE Let(read_varint(d, p), LAMBDA tag :
         IF tag.fault # "none" THEN Fail(tag.fault)
         ELSE IF FieldOf(tag.val) = FromInt(1) THEN
             Let(read_string(d, tag.ptr), LAMBDA s :
                 IF s.fault # "none" THEN Fail(s.fault)
                 ELSE TensorInfoLoop(d, s.ptr, [info EXCEPT !.name = s.val],
                                     seen \cup {p}))
         ELSE IF FieldOf(tag.val) = FromInt(2) THEN
             Let(read_varint(d, tag.ptr), LAMBDA v :
                 IF v.fault # "none" THEN Fail(v.fault)
                 ELSE TensorInfoLoop(d, v.ptr,
                          [info EXCEPT !.dtype = ToI32(v.val)], seen \cup {p}))
         ELSE IF FieldOf(tag.val) = FromInt(3) THEN
             Let(read_string(d, tag.ptr), LAMBDA s :
                 IF s.fault # "none" THEN Fail(s.fault)
                 ELSE Let(ParseTensorShape(s.val), LAMBDA sh :
                          IF sh.fault # "none" THEN sh
                          ELSE TensorInfoLoop(d, s.ptr,
                                   [info EXCEPT !.shape = sh.val],
                                   seen \cup {p})))
         ELSE
             Let(skip(d, tag.ptr, WireOf(tag.val)), LAMBDA k :
                 IF k.fault # "none" THEN Fail(k.fault)
                 ELSE TensorInfoLoop(d, k.ptr, info, seen \cup {p})))

ParseTensorInfo(blob) ==
    Let(blob, LAMBDA b : TensorInfoLoop(b, 0, NewTensorInfo, {}))

\* the while loop of ParseIOMapEntry; kv = [key, value_blob]
RECURSIVE IOEntryLoop(_, _, _, _)
IOEntryLoop(d, p, kv, seen) ==
    IF eof(d, p) THEN Ret(kv)
    ELSE IF p \in seen THEN Fail("hang")
    ELSE Let(read_varint(d, p), LAMBDA tag :
         IF tag.fault # "none" THEN Fail(tag.fault)
         ELSE IF FieldOf(tag.val) = FromInt(1) THEN
             Let(read_string(d, tag.ptr), LAMBDA s :
                 IF s.fault # "none" THEN Fail(s.fault)
                 ELSE IOEntryLoop(d, s.ptr, [kv EXCEPT !.key = s.val],
                                  seen \cup {p}))
         ELSE IF FieldOf(tag.val) = FromInt(2) THEN
             Let(read_string(d, tag.ptr), LAMBDA s :
                 IF s.fault # "none" THEN Fail(s.fault)
                 ELSE IOEntryLoop(d, s.ptr, [kv EXCEPT !.value_blob = s.val],
                                  seen \cup {p}))
         ELSE
             Let(skip(d, tag.ptr, WireOf(tag.val)), LAMBDA k :
                 IF k.fault # "none" THEN Fail(k.fault)
                 ELSE IOEntryLoop(d, k.ptr, kv, seen \cup {p})))

\* returns target_map as the call leaves it
ParseIOMapEntry(blob, target_map) ==
    Let(blob, LAMBDA b :
    Let(IOEntryLoop(b, 0, [key |-> <<>>, value_blob |-> <<>>], {}), LAMBDA e :
        IF e.fault # "none" THEN e
        ELSE IF BothNonEmpty(e.val.key, e.val.value_blob) THEN
            Let(ParseTensorInfo(e.val.value_blob), LAMBDA info :
                IF info.fault # "none" THEN info
                ELSE Ret(MapPut(target_map, e.val.key, info.val)))
        ELSE Ret(target_map)))

\* a default-constructed Signature
NewSignature == [key |-> <<>>, inputs |-> EmptyMap, outputs |-> EmptyMap]

RECURSIVE SignatureDefLoop(_, _, _, _)
SignatureDefLoop(d, p, sig, seen) ==
    IF eof(d, p) THEN Ret(sig)
    ELSE IF p \in seen THEN Fail("hang")
    ELSE Let(read_varint(d, p), LAMBDA tag :
         IF tag.fault # "none" THEN Fail(tag.fault)
         ELSE IF FieldOf(tag.val) = FromInt(1)
                 \/ FieldOf(tag.val) = FromInt(2) THEN
             Let(read_string(d, tag.ptr), LAMBDA map_entry_blob :
                 IF map_entry_blob.fault # "none"
                 THEN Fail(map_entry_blob.fault)
                 ELSE IF FieldOf(tag.val) = FromInt(1) THEN
                     Let(ParseIOMapEntry(map_entry_blob.val, sig.inputs),
                         LAMBDA m :
                             IF m.fault # "none" THEN m
                             ELSE Let([sig EXCEPT !.inputs = m.val], LAMBDA s2 :
                                      SignatureDefLoop(d, map_entry_blob.ptr,
                                                       s2, seen \cup {p})))
                 ELSE
                     Let(ParseIOMapEntry(map_entry_blob.val, sig.outputs),
                         LAMBDA m :
                             IF m.fault # "none" THEN m
                             ELSE Let([sig EXCEPT !.outputs = m.val], LAMBDA s2 :
                                      SignatureDefLoop(d, map_entry_blob.ptr,
                                                       s2, seen \cup {p}))))
         ELSE
             Let(skip(d, tag.ptr, WireOf(tag.val)), LAMBDA k :
                 IF k.fault # "none" THEN Fail(k.fault)
                 ELSE SignatureDefLoop(d, k.ptr, sig, seen \cup {p})))

ParseSignatureDef(blob) ==
    Let(blob, LAMBDA b : SignatureDefLoop(b, 0, NewSignature, {}))

\* the while loop of ParseSignatures over entry_reader;
\* kv = [sig_key, sig_val_blob]
RECURSIVE SigEntryLoop(_, _, _, _)
SigEntryLoop(d, p, kv, seen) ==
    IF eof(d, p) THEN Ret(kv)
    ELSE IF p \in seen THEN Fail("hang")
    ELSE Let(read_varint(d, p), LAMBDA m_tag :
         IF m_tag.fault # "none" THEN Fail(m_tag.fault)
         ELSE IF FieldOf(m_tag.val) = FromInt(1) THEN
             Let(read_string(d, m_tag.ptr), LAMBDA s :
                 IF s.fault # "none" THEN Fail(s.fault)
                 ELSE SigEntryLoop(d, s.ptr, [kv EXCEPT !.sig_key = s.val],
                                   seen \cup {p}))
         ELSE IF FieldOf(m_tag.val) = FromInt(2) THEN
             Let(read_string(d, m_tag.ptr), LAMBDA s :
                 IF s.fault # "none" THEN Fail(s.fault)
                 ELSE SigEntryLoop(d, s.ptr,
                          [kv EXCEPT !.sig_val_blob = s.val], seen \cup {p}))
         ELSE
             Let(skip(d, m_tag.ptr, WireOf(m_tag.val)), LAMBDA k :
                 IF k.fault # "none" THEN Fail(k.fault)
                 ELSE SigEntryLoop(d, k.ptr, kv, seen \cup {p})))

\* the `if (field == 5)` branch of ParseSignatures, from the byte after the
\* tag: returns [val |-> the table, ptr |-> reader's cursor, fault]
SignatureDefField(d, p, sigs) ==
    Let(read_string(d, p), LAMBDA map_entry_blob :
        IF map_entry_blob.fault # "none"
        THEN [val |-> sigs, ptr |-> map_entry_blob.ptr,
              fault |-> map_entry_blob.fault]
        ELSE
        Let(SigEntryLoop(map_entry_blob.val, 0,
                         [sig_key |-> <<>>, sig_val_blob |-> <<>>], {}),
            LAMBDA e :
            IF e.fault # "none"
            THEN [val |-> sigs, ptr |-> map_entry_blob.ptr, fault |-> e.fault]
            ELSE IF BothNonEmpty(e.val.sig_key, e.val.sig_val_blob) THEN
                Let(ParseSignatureDef(e.val.sig_val_blob), LAMBDA sd :
                    IF sd.fault # "none"
                    THEN [val |-> sigs, ptr |-> map_entry_blob.ptr,
                          fault |-> sd.fault]
                    ELSE [val |-> MapPut(sigs, e.val.sig_key,
                                     [sd.val EXCEPT !.key = e.val.sig_key]),
                          ptr |-> map_entry_blob.ptr, fault |-> "none"])
            ELSE [val |-> sigs, ptr |-> map_entry_blob.ptr,
                  fault |-> "none"]))

\* one iteration of the outer while loop of ParseSignatures, entered with
\* !reader.eof(): returns the table and cursor after it, and what it did
SignaturesIter(d, p, sigs) ==
    Let(read_varint(d, p), LAMBDA tag :
        IF tag.fault # "none"
        THEN [val |-> sigs, ptr |-> tag.ptr, fault |-> tag.fault,
              tagEnd |-> tag.ptr, known |-> FALSE, wire |-> WireOf(tag.val)]
        ELSE IF FieldOf(tag.val) = FromInt(5) THEN
            Let(SignatureDefField(d, tag.ptr, sigs), LAMBDA r :
                [val |-> r.val, ptr |-> r.ptr, fault |-> r.fault,
                 tagEnd |-> tag.ptr, known |-> TRUE,
                 wire |-> WireOf(tag.val)])
        ELSE
            Let(skip(d, tag.ptr, WireOf(tag.val)), LAMBDA k :
                [val |-> sigs, ptr |-> k.ptr, fault |-> k.fault,
                 tagEnd |-> tag.ptr, known |-> FALSE,
                 wire |-> WireOf(tag.val)]))

RECURSIVE SignaturesLoop(_, _, _, _)
SignaturesLoop(d, p, sigs, seen) ==
    IF eof(d, p) THEN Ret(sigs)
    ELSE IF p \in seen THEN Fail("hang")
    ELSE Let(SignaturesIter(d, p, sigs), LAMBDA it :
             IF it.fault # "none" THEN Fail(it.fault)
             ELSE SignaturesLoop(d, it.ptr, it.val, seen \cup {p}))

ParseSignatures(blob) ==
    Let(blob, LAMBDA b : SignaturesLoop(b, 0, EmptyMap, {}))

----
(* The standard wire encoding, used to build inputs *)

NGroups(v) == IF v = {} THEN 1 ELSE (MaxOf(v) \div 7) + 1

GroupVal(v, k) == ToInt({i - 7 * k : i \in v \cap ((7 * k)..(7 * k + 6))})

\* base-128 encoding of the 64-bit pattern v, least significant group first
EncodeVarint(v) ==
    Let(v, LAMBDA w :
    Let(NGroups(w), LAMBDA n :
        [k \in 1..n |-> GroupVal(w, k - 1) + (IF k < n THEN 128 ELSE 0)]))

EncTag(field, wire_type) == EncodeVarint(FromInt(field * 8 + wire_type))

EncLen(field, bytes) ==
    Let(bytes, LAMBDA b :
        EncTag(field, 2) \o EncodeVarint(FromInt(Len(b))) \o b)

EncVar(field, v) == EncTag(field, 0) \o EncodeVarint(v)

Rep(b, n) == [i \in 1..n |-> b]

----------------------------------------------------------------------------
(* Inputs of the cursor machine *)

BitBasis == {0, 6, 7, 35, 62, 63}

VarintValues == (SUBSET BitBasis) \cup {0..6, 0..62, 0..63}

VarintInputs ==
    { [kind |-> "varint", v |-> v, n |-> Len(EncodeVarint(v)),
       bytes |-> EncodeVarint(v) \o tail]
        : v \in VarintValues, tail \in {<<>>, <<42>>} }

\* a complete value A of wire type wt, as it follows its tag
FieldValues ==
    { [wt |-> 0, bytes |-> EncodeVarint(v)] : v \in {{}, {0}, {7}, 0..63} }
    \cup { [wt |-> 1, bytes |-> <<1, 2, 3, 4, 5, 6, 7, 255>>] }
    \cup { [wt |-> 5, bytes |-> <<1, 2, 3, 255>>] }
    \cup { [wt |-> 2, bytes |-> EncodeVarint(FromInt(Len(b))) \o b]
             : b \in {<<>>, <<8>>, <<255, 255>>, Rep(7, 130)} }

\* a complete field B, tag included
FieldsB == { EncVar(1, {0, 2}), EncVar(3, 0..63), EncLen(2, <<97, 98>>),
             EncTag(4, 5) \o <<9, 9, 9, 9>>, EncTag(6, 1) \o Rep(9, 8) }

FieldInputs ==
    { [kind |-> "fields", wt |-> a.wt, n |-> Len(a.bytes),
       bytes |-> a.bytes \o b] : a \in FieldValues, b \in FieldsB }

RawInputs ==
    { [kind |-> "raw", bytes |-> Rep(255, n) \o t]
        : n \in 0..MaxRun, t \in {<<>>, <<1>>, <<127, 10, 3>>} }

ReaderInputs == VarintInputs \cup FieldInputs \cup RawInputs

\* lengths offered to read_bytes
LenArgs == {{}, {0}, {2}, {3}, {63}, 0..63}

----------------------------------------------------------------------------
(* The cursor machine: any sequence of ProtoReader calls on one buffer *)

NoLast == [from |-> 0, tagEnd |-> 0, known |-> TRUE, wire |-> 0]

InitReader ==
    /\ src \in ReaderInputs
    /\ data = src.bytes
    /\ ptr_ = 0
    /\ ret = {}
    /\ fault = "none"
    /\ signatures = EmptyMap
    /\ pc = "reader"
    /\ calls = <<>>
    /\ last = NoLast
    /\ ubShift \in {"mod64", "zero"}

CanCall == pc = "reader" /\ fault = "none" /\ Len(calls) < MaxCalls

Finish(result, op, arg) ==
    \E r \in {result} :
        /\ ptr_' = r.ptr
        /\ ret' = r.val
        /\ fault' = r.fault
        /\ calls' = Append(calls, [op |-> op, arg |-> arg, from |-> ptr_])
        /\ UNCHANGED <<data, signatures, pc, last, src, ubShift>>

Call_read_varint ==
    /\ CanCall
    /\ Finish(read_varint(data, ptr_), "read_varint", {})

Call_read_bytes ==
    /\ CanCall
    /\ \E len \in LenArgs : Finish(read_bytes(data, ptr_, len), "read_bytes", len)

Call_read_string ==
    /\ CanCall
    /\ Finish(read_string(data, ptr_), "read_string", {})

Call_skip ==
    /\ CanCall
    /\ \E wt \in 0..7 : Finish(skip(data, ptr_, wt), "skip", wt)

NextReader == Call_read_varint \/ Call_read_bytes \/ Call_read_string \/ Call_skip

SpecReader == InitReader /\ [][NextReader]_vars

----------------------------------------------------------------------------
(* Claims about the cursor *)

FirstCall(op) == pc = "reader" /\ Len(calls) = 1 /\ calls[1].op = op

\* C1: after every ProtoReader operation the cursor is within [start, end]
\* of its buffer and no byte outside the buffer has been read.
C1_CursorStaysInBuffer ==
    pc = "reader" => (0 <= ptr_ /\ ptr_ <= Len(data) /\ fault # "oob_read")

DecodeValue(d, p, wt) ==
    IF wt = 0 THEN read_varint(d, p)
    ELSE IF wt = 2 THEN read_string(d, p)
    ELSE IF wt = 1 THEN read_bytes(d, p, FromInt(8))
    ELSE read_bytes(d, p, FromInt(4))

\* reading one whole field at p: its tag, then its value
ReadField(d, p) ==
    Let(read_varint(d, p), LAMBDA tag :
    Let(DecodeValue(d, tag.ptr, WireOf(tag.val)), LAMBDA v :
        [tag |-> tag.val, val |-> v.val, ptr |-> v.ptr, fault |-> v.fault]))

\* C7: skipping a complete value A of wire type 0, 1, 2 or 5 leaves the
\* cursor at the start of the following field B, and B read from there is
\* B as read after decoding A normally.
C7_SkipIsDecodeAndDiscard ==
    (FirstCall("skip") /\ src.kind = "fields" /\ calls[1].arg = src.wt)
        => /\ fault = "none"
           /\ ptr_ = src.n
           /\ ReadField(data, ptr_)
                = ReadField(data, DecodeValue(data, 0, src.wt).ptr)
           /\ ReadField(data, ptr_).ptr = Len(data)

\* a 130-byte length-delimited A (two-byte length) skipped, B a string field
C7_Witness ==
    /\ FirstCall("skip") /\ src.kind = "fields" /\ calls[1].arg = 2
    /\ src.wt = 2 /\ src.n = 132 /\ ptr_ = 132
    /\ ReadField(data, ptr_).tag = FromInt(2 * 8 + 2)
    /\ ReadField(data, ptr_).val = <<97, 98>>

----------------------------------------------------------------------------
(* Signature tables and their standard (proto3) wire encoding.             *)
(* A table is a sequence of signatures [name, inputs, outputs]; inputs and *)
(* outputs are sequences of [key, info]; info = [name, dtype, shape,       *)
(* hasShape] with dtype and the dimensions small signed integers.          *)

RECURSIVE CatFrom(_, _)
CatFrom(ss, i) == IF i > Len(ss) THEN <<>> ELSE ss[i] \o CatFrom(ss, i + 1)

\* the concatenation of a sequence of byte sequences
Cat(ss) == Let(ss, LAMBDA s : CatFrom(s, 1))

\* proto3 leaves a scalar field that holds its default value off the wire
EncDim(size) == IF size = 0 THEN <<>> ELSE EncVar(1, I64(size))

EncShape(dims) == Cat([i \in 1..Len(dims) |-> EncLen(2, EncDim(dims[i]))])

EncTensorInfo(info) ==
    (IF info.name = <<>> THEN <<>> ELSE EncLen(1, info.name))
    \o (IF info.dtype = 0 THEN <<>> ELSE EncVar(2, I64(info.dtype)))
    \o (IF info.hasShape THEN EncLen(3, EncShape(info.shape)) ELSE <<>>)

\* a map entry always carries its key and its value
EncEntry(key, value) == EncLen(1, key) \o EncLen(2, value)

EncIOMap(field, entries) ==
    Cat([j \in 1..Len(entries) |->
           EncLen(field, EncEntry(entries[j].key,
                                  EncTensorInfo(entries[j].info)))])

EncSignatureDef(sig) == EncIOMap(1, sig.inputs) \o EncIOMap(2, sig.outputs)

EncSignatures(table) ==
    Cat([i \in 1..Len(table) |->
           EncLen(5, EncEntry(table[i].name, EncSignatureDef(table[i])))])

\* what a table is as TensorInfo / Signature / std::map values
ExpInfo(info) ==
    [name |-> info.name, dtype |-> I32(info.dtype),
     shape |-> [i \in 1..Len(info.shape) |-> I64(info.shape[i])]]

ExpMap(entries) ==
    [k \in {entries[j].key : j \in 1..Len(entries)} |->
        ExpInfo(entries[CHOOSE j \in 1..Len(entries) : entries[j].key = k].info)]

ExpSig(sig) ==
    [key |-> sig.name, inputs |-> ExpMap(sig.inputs),
     outputs |-> ExpMap(sig.outputs)]

Expect(table) ==
    [n \in {table[i].name : i \in 1..Len(table)} |->
        ExpSig(table[CHOOSE i \in 1..Len(table) : table[i].name = n])]

WellFormed(table) ==
    \A i \in 1..Len(table) :
        /\ table[i].name # <<>>
        /\ \A io \in {table[i].inputs, table[i].outputs} :
              \A j \in 1..Len(io) :
                  io[j].key # <<>> /\ EncTensorInfo(io[j].info) # <<>>

----------------------------------------------------------------------------
(* Generated tables *)

DimValues == {-1, 0, 300}

Shapes == UNION {[1..r -> DimValues] : r \in 0..MaxRank}

Infos ==
    { [name |-> n, dtype |-> t, shape |-> sh, hasShape |-> h]
        : n \in {<<>>, <<120, 58, 48>>}, t \in {0, 3}, sh \in Shapes,
          h \in BOOLEAN } \ { i \in [name : {<<>>, <<120, 58, 48>>},
                                     dtype : {0, 3}, shape : Shapes,
                                     hasShape : {FALSE}] : i.shape # <<>> }

SigNames == <<<<115>>, <<116, 50>>, <<117>>, <<118>>>>
InKeys == <<<<105>>, <<106>>, <<107>>>>
OutKeys == <<<<111>>, <<105>>, <<112>>>>

\* the info of entry j of signature i: the first is `info` itself, the
\* others carry a mark in their name
Marked(info, i, j, d) ==
    IF i = 1 /\ j = 1 /\ d = 1 THEN info
    ELSE [info EXCEPT !.name = @ \o <<48 + i, 48 + j, 48 + d>>]

GenTable(info, nsig, nin, nout) ==
    [i \in 1..nsig |->
        [name |-> SigNames[i],
         inputs |-> [j \in 1..nin |->
                        [key |-> InKeys[j], info |-> Marked(info, i, j, 1)]],
         outputs |-> [j \in 1..nout |->
                        [key |-> OutKeys[j], info |-> Marked(info, i, j, 2)]]]]

\* the table of the spec's example
ExampleTable ==
    << [name |-> <<115, 101, 114, 118, 105, 110, 103, 95, 100, 101, 102, 97,
                   117, 108, 116>>,
        inputs |-> << [key |-> <<105, 110, 112, 117, 116, 95, 49>>,
                       info |-> [name |-> <<115, 101, 114, 118, 105, 110, 103,
                                            95, 100, 101, 102, 97, 117, 108,
                                            116, 95, 105, 110, 112, 117, 116,
                                            95, 49, 58, 48>>,
                                 dtype |-> 1, shape |-> <<-1, 28, 28, 1>>,
                                 hasShape |-> TRUE]] >>,
        outputs |-> << [key |-> <<111, 117, 116, 112, 117, 116, 95, 49>>,
                        info |-> [name |-> <<83, 116, 97, 116, 101, 102, 117,
                                             108, 80, 97, 114, 116, 105, 116,
                                             105, 111, 110, 101, 100, 67, 97,
                                             108, 108, 58, 48>>,
                                  dtype |-> 1, shape |-> <<-1, 10>>,
                                  hasShape |-> TRUE]] >> ] >>

Tables ==
    { GenTable(info, nsig, nin, nout)
        : info \in Infos, nsig \in 0..MaxSigs, nin \in 0..MaxIO,
          nout \in 0..MaxIO } \cup {ExampleTable}

TableInputs ==
    { [kind |-> "table", table |-> t, bytes |-> EncSignatures(t)]
        : t \in Tables }

\* a table's encoding without the last byte of its final field
TruncInputs ==
    { [kind |-> "trunc", table |-> i.table, full |-> i.bytes,
       bytes |-> SubSeq(i.bytes, 1, Len(i.bytes) - 1)]
        : i \in {x \in TableInputs : Len(x.table) >= 1} }

----------------------------------------------------------------------------
(* Map-entry lists: entries with repeated, empty or missing keys and values *)

Body1 ==
    [inputs |-> << [key |-> <<105>>,
                    info |-> [name |-> <<120>>, dtype |-> 1,
                              shape |-> <<-1, 28>>, hasShape |-> TRUE]] >>,
     outputs |-> <<>>]

Body2 ==
    [inputs |-> <<>>,
     outputs |-> << [key |-> <<111>>,
                     info |-> [name |-> <<121>>, dtype |-> 3,
                               shape |-> <<10>>, hasShape |-> TRUE]] >>]

Bodies == <<Body1, Body2>>

Info1 == [name |-> <<120>>, dtype |-> 1, shape |-> <<-1, 28>>, hasShape |-> TRUE]
Info2 == [name |-> <<>>, dtype |-> 7, shape |-> <<>>, hasShape |-> FALSE]

EntryInfos == <<Info1, Info2>>

\* an entry is [key, pay, form]: pay = 0 is the empty payload, pay = i > 0
\* the encoding of the i-th body (or info); form tells which of the two
\* fields the entry carries, and in which order
Entries ==
    { [key |-> k, pay |-> v, form |-> "kv"]
        : k \in {<<>>, <<97>>, <<98>>}, v \in 0..2 }
    \cup { [key |-> <<97>>, pay |-> 0, form |-> "k"],
           [key |-> <<>>, pay |-> 1, form |-> "v"],
           [key |-> <<97>>, pay |-> 2, form |-> "vk"] }

EntryLists == UNION {[1..n -> Entries] : n \in 0..MaxEntries}

SigPayload(e) == IF e.pay = 0 THEN <<>> ELSE EncSignatureDef(Bodies[e.pay])

InfoPayload(e) == IF e.pay = 0 THEN <<>> ELSE EncTensorInfo(EntryInfos[e.pay])

EncForm(e, payload) ==
    IF e.form = "kv" THEN EncLen(1, e.key) \o EncLen(2, payload)
    ELSE IF e.form = "vk" THEN EncLen(2, payload) \o EncLen(1, e.key)
    ELSE IF e.form = "k" THEN EncLen(1, e.key)
    ELSE EncLen(2, payload)

EncSigEntry(e) == EncLen(5, EncForm(e, SigPayload(e)))

\* offsets at which the entries of the list start, and the end
Starts(blobs) ==
    Let(blobs, LAMBDA bs :
        [i \in 1..(Len(bs) + 1) |-> Len(Cat(SubSeq(bs, 1, i - 1)))])

EntriesInputs ==
    { [kind |-> "entries", entries |-> es,
       starts |-> Starts([i \in 1..Len(es) |-> EncSigEntry(es[i])]),
       bytes |-> Cat([i \in 1..Len(es) |-> EncSigEntry(es[i])])]
        : es \in EntryLists }

\* the same lists as the inputs map (field 1) of one SignatureDef
IOEntriesInputs ==
    { [kind |-> "ioentries", entries |-> es,
       bytes |-> Cat([i \in 1..Len(es) |->
                        EncLen(1, EncForm(es[i], InfoPayload(es[i])))])]
        : es \in EntryLists }

\* one map entry, and the map it is decoded into
TargetMaps ==
    { EmptyMap, MapPut(EmptyMap, <<97>>, ExpInfo(Info2)),
      MapPut(MapPut(EmptyMap, <<97>>, ExpInfo(Info1)), <<99>>, ExpInfo(Info2)) }

IOEntryInputs ==
    { [kind |-> "ioentry", entry |-> e, target |-> m,
       bytes |-> EncForm(e, InfoPayload(e))]
        : e \in Entries, m \in TargetMaps }

----------------------------------------------------------------------------
(* Shape messages *)

\* a field of a TensorShapeProto: a dim with a size, a dim with a name
\* before its size, a dim without size, unknown_rank, or another field
ShapeItems ==
    { [f |-> "dim", size |-> -1], [f |-> "dim", size |-> 5],
      [f |-> "named", size |-> 300], [f |-> "nosize", size |-> 0],
      [f |-> "rank", size |-> 1], [f |-> "rank", size |-> 0],
      [f |-> "other", size |-> 9] }

EncItem(it) ==
    IF it.f = "dim" THEN EncLen(2, EncVar(1, I64(it.size)))
    ELSE IF it.f = "named"
         THEN EncLen(2, EncLen(2, <<110>>) \o EncVar(1, I64(it.size)))
    ELSE IF it.f = "nosize" THEN EncLen(2, <<>>)
    ELSE IF it.f = "rank" THEN EncVar(3, I64(it.size))
    ELSE EncVar(4, I64(it.size))

EncItems(items) == Cat([i \in 1..Len(items) |-> EncItem(items[i])])

ShapeInputs ==
    { [kind |-> "shape", items |-> items, bytes |-> EncItems(items)]
        : items \in UNION {[1..n -> ShapeItems] : n \in 0..MaxItems} }

----------------------------------------------------------------------------
(* Buffers of top-level fields other than field 5, and group tags *)

\* field numbers as 61-bit patterns: 1, 4, 6, 1000 and 2^32 + 5
OtherFieldNumbers ==
    {FromInt(1), FromInt(4), FromInt(6), FromInt(1000), {0, 2, 32}}

EncTagOf(fnum, wire_type) == EncodeVarint(Shl(fnum, 3) \cup FromInt(wire_type))

OtherFields ==
    { EncTagOf(f, v.wt) \o v.bytes
        : f \in OtherFieldNumbers,
          v \in { [wt |-> 0, bytes |-> EncodeVarint(FromInt(300))],
                  [wt |-> 1, bytes |-> Rep(42, 8)],
                  [wt |-> 5, bytes |-> Rep(42, 4)],
                  [wt |-> 2, bytes |-> <<3, 42, 1, 10>>],
                  [wt |-> 2, bytes |->
                      EncodeVarint(FromInt(Len(EncEntry(<<97>>,
                                               EncSignatureDef(Body1)))))
                      \o EncEntry(<<97>>, EncSignatureDef(Body1))] } }

OtherInputs ==
    { [kind |-> "other", bytes |-> Cat(fs)]
        : fs \in UNION {[1..n -> OtherFields] : n \in 0..MaxFields} }

\* an unknown field with a group wire type, and what follows it
GroupInputs ==
    { [kind |-> "group", bytes |-> EncTag(f, wt) \o rest]
        : f \in {7, 5}, wt \in {3, 4},
          rest \in { <<>>, <<8, 1>>,
                     EncLen(5, EncEntry(<<97>>, EncSignatureDef(Body1))),
                     EncTag(7, 4) } }

\* a length-delimited field whose length varint is 2^64 - back: ten bytes
\* long, it follows a one-byte tag
HugeField(field, back) == EncTag(field, 2) \o EncodeVarint(I64(-back))

\* buffers with a length of 2^64 - back, at the top level (a skipped field,
\* or a signature_def entry) and inside a SignatureDef payload
HugeInputs ==
    { [kind |-> "huge", nested |-> FALSE, field |-> f, back |-> k,
       bytes |-> HugeField(f, k) \o rest]
        : f \in {1, 5}, k \in {1, 11, 12}, rest \in {<<>>, <<8, 1>>} }
    \cup
    { [kind |-> "huge", nested |-> TRUE, field |-> 3, back |-> k,
       bytes |-> EncLen(5, EncEntry(<<97>>, HugeField(3, k)))]
        : k \in {1, 11} }

ParseInputs ==
    TableInputs \cup TruncInputs \cup EntriesInputs \cup OtherInputs
        \cup GroupInputs \cup HugeInputs

CallInputs == IOEntriesInputs \cup IOEntryInputs \cup ShapeInputs

----------------------------------------------------------------------------
(* The decoder: ParseSignatures run one loop iteration at a time, and      *)
(* direct calls of the helpers                                             *)

Init ==
    /\ src \in ParseInputs \cup CallInputs
    /\ data = src.bytes
    /\ ptr_ = 0
    /\ ret = <<>>
    /\ fault = "none"
    /\ signatures = EmptyMap
    /\ pc = IF src \in CallInputs THEN "call" ELSE "loop"
    /\ calls = <<>>
    /\ last = NoLast
    /\ ubShift \in {"mod64", "zero"}

\* one pass through the body of `while (!reader.eof())`
ParseSignaturesStep ==
    /\ pc = "loop"
    /\ ~eof(data, ptr_)
    /\ \E it \in {SignaturesIter(data, ptr_, signatures)} :
           /\ ptr_' = it.ptr
           /\ signatures' = it.val
           /\ fault' = it.fault
           /\ pc' = IF it.fault = "none" THEN "loop" ELSE "fault"
           /\ last' = [from |-> ptr_, tagEnd |-> it.tagEnd,
                       known |-> it.known, wire |-> it.wire]
    /\ UNCHANGED <<data, ret, calls, src, ubShift>>

\* `return signatures;`
ParseSignaturesReturn ==
    /\ pc = "loop"
    /\ eof(data, ptr_)
    /\ pc' = "done"
    /\ ret' = signatures
    /\ UNCHANGED <<data, ptr_, fault, signatures, calls, last, src, ubShift>>

Returned(result) ==
    \E r \in {result} :
        /\ ret' = r.val
        /\ fault' = r.fault
        /\ pc' = IF r.fault = "none" THEN "done" ELSE "fault"
        /\ UNCHANGED <<data, ptr_, signatures, calls, last, src, ubShift>>

Call_ParseTensorShape ==
    /\ pc = "call" /\ src.kind = "shape"
    /\ Returned(ParseTensorShape(data))

Call_ParseSignatureDef ==
    /\ pc = "call" /\ src.kind = "ioentries"
    /\ Returned(ParseSignatureDef(data))

Call_ParseIOMapEntry ==
    /\ pc = "call" /\ src.kind = "ioentry"
    /\ Returned(ParseIOMapEntry(data, src.target))

Next ==
    \/ ParseSignaturesStep
    \/ ParseSignaturesReturn
    \/ Call_ParseTensorShape
    \/ Call_ParseSignatureDef
    \/ Call_ParseIOMapEntry

Spec == Init /\ [][Next]_vars

\* the decoder as a running program: a call that can take a step takes it
SpecLive == Spec /\ WF_vars(Next)

----------------------------------------------------------------------------
(* Claims about ParseSignatures *)

Finished == pc \in {"done", "fault"}

\* C2: ParseSignatures applied to the standard encoding of a well-formed
\* signature table returns exactly that table: the same signature names,
\* the same input and output keys, each with the same name, type code and
\* dimension list.
C2_TableRoundTrip ==
    (Finished /\ src.kind = "table" /\ WellFormed(src.table))
        => (pc = "done" /\ ret = Expect(src.table))

Restrict(m, S) == [k \in S |-> m[k]]

\* C3: with the last byte of the final length-delimited field removed,
\* ParseSignatures reads nothing outside the buffer and returns the
\* untruncated decode without the trailing signature: every earlier
\* signature is as in the untruncated decode and no other entry appears.
C3_TruncatedTailDropped ==
    (Finished /\ src.kind = "trunc")
        => /\ pc = "done" /\ fault = "none"
           /\ \E full \in {ParseSignatures(src.full).val},
                 n \in {Len(src.table)} :
                  /\ \A i \in 1..(n - 1) :
                        src.table[i].name \in DOMAIN full
                            => /\ src.table[i].name \in DOMAIN ret
                               /\ ret[src.table[i].name]
                                    = full[src.table[i].name]
                  /\ DOMAIN ret \subseteq DOMAIN full
                  /\ src.table[n].name \notin DOMAIN ret

\* two signatures, the second one cut: the first is returned, the second not
C3_Witness ==
    /\ pc = "done" /\ src.kind = "trunc" /\ Len(src.table) = 2
    /\ DOMAIN ret = {src.table[1].name}
    /\ DOMAIN ParseSignatures(src.full).val
         = {src.table[1].name, src.table[2].name}
    /\ ret[src.table[1].name].inputs # EmptyMap

----------------------------------------------------------------------------
(* Claims about map entries *)

DecKey(e) == IF e.form = "v" THEN <<>> ELSE e.key

HasValue(e) == e.form # "k" /\ e.pay # 0

Droppable(e) == DecKey(e) = <<>> \/ ~HasValue(e)

WithKey(es, k) == {i \in 1..Len(es) : DecKey(es[i]) = k}

Stored(es, k) == {i \in WithKey(es, k) : HasValue(es[i])}

\* the Signature / TensorInfo an entry's value payload decodes to
SigOf(e, k) ==
    IF HasValue(e)
    THEN ExpSig([name |-> k, inputs |-> Bodies[e.pay].inputs,
                 outputs |-> Bodies[e.pay].outputs])
    ELSE [NewSignature EXCEPT !.key = k]

InfoOf(e) == IF HasValue(e) THEN ExpInfo(EntryInfos[e.pay]) ELSE NewTensorInfo

\* C4 as stated: if two or more entries of a map share a key, the decoded
\* value for that key is the decode of the value payload of the last of
\* them, whatever the payloads are.
C4_LastEntryWins ==
    /\ (pc = "done" /\ src.kind = "entries")
        => \A k \in {DecKey(src.entries[i]) : i \in 1..Len(src.entries)} :
              Cardinality(WithKey(src.entries, k)) >= 2
                  => /\ k \in DOMAIN ret
                     /\ ret[k] = SigOf(src.entries[MaxOf(WithKey(src.entries, k))], k)
    /\ (pc = "done" /\ src.kind = "ioentries")
        => \A k \in {DecKey(src.entries[i]) : i \in 1..Len(src.entries)} :
              Cardinality(WithKey(src.entries, k)) >= 2
                  => /\ k \in DOMAIN ret.inputs
                     /\ ret.inputs[k] = InfoOf(src.entries[MaxOf(WithKey(src.entries, k))])

\* C4 amended: if two or more entries of a map share a non-empty key and at
\* least one of them has a non-empty value payload, the decoded value for
\* that key is the decode of the value payload of the last of them that
\* has a non-empty value payload.
C4_LastNonEmptyEntryWins ==
    /\ (pc = "done" /\ src.kind = "entries")
        => \A k \in {DecKey(src.entries[i]) : i \in 1..Len(src.entries)} :
              (/\ Cardinality(WithKey(src.entries, k)) >= 2
               /\ k # <<>> /\ Stored(src.entries, k) # {})
                  => /\ k \in DOMAIN ret
                     /\ ret[k] = SigOf(src.entries[MaxOf(Stored(src.entries, k))], k)
    /\ (pc = "done" /\ src.kind = "ioentries")
        => \A k \in {DecKey(src.entries[i]) : i \in 1..Len(src.entries)} :
              (/\ Cardinality(WithKey(src.entries, k)) >= 2
               /\ k # <<>> /\ Stored(src.entries, k) # {})
                  => /\ k \in DOMAIN ret.inputs
                     /\ ret.inputs[k] = InfoOf(src.entries[MaxOf(Stored(src.entries, k))])

\* two signature entries under key "a" with different payloads: the second
\* one's outputs are what is returned
C4_Witness ==
    /\ pc = "done" /\ src.kind = "entries" /\ Len(src.entries) = 2
    /\ src.entries[1] = [key |-> <<97>>, pay |-> 1, form |-> "kv"]
    /\ src.entries[2] = [key |-> <<97>>, pay |-> 2, form |-> "kv"]
    /\ DOMAIN ret = {<<97>>}
    /\ ret[<<97>>].inputs = EmptyMap
    /\ DOMAIN ret[<<97>>].outputs = {<<111>>}

EntryAt(p) ==
    CHOOSE i \in 1..Len(src.entries) : src.starts[i] = p

\* C8: decoding a map entry whose decoded key is empty or whose decoded
\* value payload is empty leaves the target map as it was.
C8_EmptyEntryDropped ==
    [][ /\ (/\ pc = "loop" /\ src.kind = "entries" /\ ~eof(data, ptr_)
            /\ Droppable(src.entries[EntryAt(ptr_)]))
               => (signatures' = signatures /\ fault' = "none")
        /\ (pc = "call" /\ src.kind = "ioentry" /\ Droppable(src.entry))
               => (pc' = "done" /\ ret' = src.target)
      ]_vars

\* an entry "a" with an empty payload has just been decoded into a table
\* that holds "a" from the entry before it
C8_Witness ==
    /\ pc = "loop" /\ src.kind = "entries" /\ Len(src.entries) = 2
    /\ src.entries[1] = [key |-> <<97>>, pay |-> 1, form |-> "kv"]
    /\ src.entries[2] = [key |-> <<97>>, pay |-> 0, form |-> "kv"]
    /\ ptr_ = src.starts[3]
    /\ DOMAIN signatures = {<<97>>}
    /\ signatures[<<97>>] = SigOf(src.entries[1], <<97>>)

----------------------------------------------------------------------------
(* Claims about ParseTensorShape, unknown fields and groups *)

HasSize(it) == it.f \in {"dim", "named"}

NotRank(it) == it.f # "rank"

SizesOf(items) ==
    Let(SelectSeq(items, HasSize), LAMBDA sized :
        [i \in 1..Len(sized) |-> I64(sized[i].size)])

\* C9: ParseTensorShape returns the size varints of the dimension
\* sub-messages in encounter order, and unknown_rank fields, present or
\* not, true or false, do not change the returned list.
C9_ShapeSizesInOrder ==
    (Finished /\ src.kind = "shape")
        => /\ pc = "done"
           /\ ret = SizesOf(src.items)
           /\ ret = ParseTensorShape(EncItems(SelectSeq(src.items, NotRank))).val
           /\ (\A i \in 1..Len(src.items) : ~HasSize(src.items[i]))
                 => ret = ParseTensorShape(<<>>).val

\* unknown_rank = true between two dimensions
C9_Witness ==
    /\ pc = "done" /\ src.kind = "shape"
    /\ src.items = << [f |-> "dim", size |-> -1], [f |-> "rank", size |-> 1],
                      [f |-> "named", size |-> 300] >>
    /\ ret = <<0..63, {2, 3, 5, 8}>>

\* C5: ParseSignatures returns an empty table for the empty buffer and for
\* every buffer whose top-level fields all have a field number (tag >> 3 of
\* the 64-bit tag) other than 5.
C5_OtherFieldsSkipped ==
    (Finished /\ src.kind = "other") => (pc = "done" /\ ret = EmptyMap)

\* C10: when an unrecognized field has wire type 3 or 4, the decoder loop
\* does not go on to read the bytes right after that tag as the next tag.
C10_GroupNotMiscounted ==
    ~(/\ pc = "loop" /\ src.kind = "group"
      /\ ~last.known /\ last.wire \in {3, 4}
      /\ ptr_ = last.tagEnd /\ ~eof(data, ptr_))

\* C11: on every input buffer ParseSignatures terminates and returns a
\* table: a run that is in the decoding loop reaches the return statement,
\* without raising and without an iteration that fails to move the cursor
\* forward.
C11_TerminatesWithTable ==
    (pc = "loop") ~> (pc = "done" /\ fault = "none")

\* the payload bits of the bytes d[from + 1 .. to], each 7-bit group at its
\* place, for the groups whose place is below bit 64
PayloadBits(d, from, to) ==
    UNION { Shl(LowSeven(d[i]), 7 * (i - from - 1))
              : i \in {j \in (from + 1)..to : 7 * (j - from - 1) < 64} }

\* C12: a single read_varint call consumes at most 10 bytes, so that its
\* shift count stays below 64, and returns the payload bits of the bytes it
\* consumed.
C12_VarintAtMostTenBytes ==
    FirstCall("read_varint")
        => (/\ fault = "none"
            /\ ptr_ - calls[1].from <= 10
            /\ ret = PayloadBits(data, calls[1].from, ptr_))

====
